---- MODULE Spec2Model ----
(***************************************************************************)
(* Model of crypto000.py: the Trader pipeline                              *)
(*   populate_ticker_queue  (PriceFeed, one thread per pair)               *)
(*   populate_signal_queue  (IndicatorEngine, one thread per pair)         *)
(*   execute_trades_on_queue (Executor)                                    *)
(*   latency_bookkeeper     (LatencyMonitor)                               *)
(*                                                                         *)
(* The threads share self.latencies, self.signals, self.stakes, self.roi,  *)
(* self.profit, self.past_trades and the queues without any lock of their  *)
(* own, so a step of the model is one statement that touches shared state: *)
(* engine_at and executor.at hold the source line of the next such         *)
(* statement of each thread.                                               *)
(*                                                                         *)
(* Prices are integers: the quotes offered to the feed have an even        *)
(* bid+ask, so the mid (bid+ask)/2 is an integer and float64 holds it      *)
(* exactly.  The EMAs and the ROI are float64 values, computed with the    *)
(* rounding of IEEE 754 (round to nearest, ties to even).  Time is in      *)
(* milliseconds.                                                           *)
(***************************************************************************)
EXTENDS Integers, Sequences, FiniteSets, TLC

(* ------------------------------- bounds -------------------------------- *)
MaxSnap == 2          \* tickers fetched in a run
MaxTicks == 1         \* clock advances in a run
TickMs == 2500        \* one clock advance, in ms

Pairs == {"X"}
\* <<bid, ask>> of a fetched ticker; mids 4 and 12
Quotes == {<<3, 5>>, <<12, 12>>}
\* local clock minus tk['time'] when a ticker is fetched: the exchange's
\* clock may run ahead of the local one (by an odd number of ms here, so that
\* the mean of two latencies need not be a whole number)
Lags == {-501, 0}
\* the OHLC history an engine starts with, as <<timestamp, close>>; the
\* candles are older than every ticker, and carry timestamp 0 here
Hists == {<< >>, << <<0, 8>> >>}
\* <<b, e>>: the windows __call__ passes to populate_signal_queue
WindowPairs == {<<10, 45>>}

\* populate_signal_queue called with other windows as well, on quotes of
\* mids 0, 4, 8, 10 and 12 after one candle of close 8: below, at and above
\* the history, so that the difference of the EMAs takes both signs and,
\* with windows 1 and 3, the value 0
Windows6 == {<<1, 3>>, <<10, 45>>}
Quotes6 == {<<0, 0>>, <<3, 5>>, <<8, 8>>, <<10, 10>>, <<12, 12>>}
Hists6 == {<< <<0, 8>> >>}

\* the scenario [10, 10, 11, 13, 16] with windows 2 and 4, on no prior
\* history or on the one candle 10
Scenario8 == <<10, 10, 11, 13, 16>>
Windows8 == {<<2, 4>>}
MaxTicks8 == 4
Hists8 == {<< >>, << <<0, 10>> >>}

\* a run long enough for two flushes of the latency batch
MaxSnap11 == 5
MaxTicks11 == 4
Quotes11 == {<<3, 5>>}
Hists11 == {<< <<0, 8>> >>}

\* two pairs
MaxSnap12 == 1
MaxTicks12 == 1
Pairs12 == {"X", "Y"}
Quotes12 == {<<3, 5>>, <<6, 6>>}
Hists12 == {<< <<0, 8>> >>}

(* --------------------------- program constants -------------------------- *)
StaleMs == 5000
saving_batch_size == 2   \* self.saving_batch_size, a configured batch size

VARIABLES
    now,            \* time.time() * 1000
    ticks,          \* number of clock advances so far (bounds the run)
    windows,        \* <<b, e>>: the arguments of populate_signal_queue
    latency_logging,       \* self.latency_logging
    latency_queue_exists,  \* whether __init__ has created self.latency_queue
    fetched,        \* number of inputs taken so far (bounds the run)
    feed,           \* per pair: "run", or the error that ended the thread of
                    \* populate_ticker_queue: "fetch_error", "format_error"
    ticker_queues,  \* self.ticker_queues[pair]: FIFO of snapshots
    engine,         \* per pair: the thread of populate_signal_queue: "run",
                    \* "crashed" (IndexError at buy[-1]) or "attribute_error"
    engine_at,      \* per pair: the line of the next statement of that thread
                    \* that touches shared state: 200, 220, 221, 223, 225, 228
    lastts,         \* per pair: lastts of populate_signal_queue
    latencies,      \* per pair: the local list latencies of populate_signal_queue
    ydata,          \* per pair: ydata, as <<timestamp, price>> (price is index 4)
    signals,        \* self.signals
    signal_queue,   \* the shared Queue of signals
    all_latencies,  \* self.latencies
    latency_queue,  \* self.latency_queue (a LifoQueue)
    X, Y,           \* the buffers of latency_bookkeeper
    npz,            \* the persisted file latencies-<ssid>.npz: <<a, b>>, or << >> when absent
    flushes,        \* number of np.savez_compressed calls so far
    keeper,         \* the thread of latency_bookkeeper: "run", "off" (never
                    \* started) or "attribute_error"
    stakes,         \* self.stakes: a function on the pairs seen so far
    profit,         \* self.profit
    roi,            \* self.roi, a float64
    past_trades,    \* self.past_trades
    executor        \* the thread of execute_trades_on_queue: at is the line
                    \* of its next statement that touches shared state (253,
                    \* 259, 263, 264, 270, 271, 272, 273); sgnl, sgnl_age
                    \* and stake are its locals

vars == <<now, ticks, windows, latency_logging, latency_queue_exists, fetched,
          ticker_queues, feed, engine, engine_at, lastts, latencies,
          ydata, signals, signal_queue, all_latencies, latency_queue,
          X, Y, npz, flushes, keeper, stakes, profit, roi, past_trades, executor>>

cfgVars == <<windows, latency_logging, latency_queue_exists>>
feedVars == <<fetched, ticker_queues, feed>>
engineVars == <<engine, engine_at, lastts, latencies, ydata, signals, all_latencies>>
execVars == <<stakes, profit, roi, past_trades, executor>>
keeperVars == <<X, Y, npz, flushes, keeper>>

(* ------------------------------ arithmetic ------------------------------ *)
Abs(n) == IF n < 0 THEN -n ELSE n

\* int(x / d) of Python for d > 0: truncation towards zero
TruncDiv(x, d) == IF x >= 0 THEN x \div d ELSE -((-x) \div d)

RECURSIVE SumSeq(_)
SumSeq(s) == IF s = << >> THEN 0 ELSE Head(s) + SumSeq(Tail(s))

(* ---------------------------- natural numbers --------------------------- *)
\* A float64 mantissa and the exact products and sums of two of them do not
\* fit the integers of the model checker: naturals are sequences of limbs,
\* least significant first, without leading zeros.  The operations are
\* functions, so that an argument is evaluated once, when it is applied.
LimbBits == 14
Base == 16384             \* 2^LimbBits
Big == Seq(Nat)

BigTrim[a \in Big] ==
    IF a = << >> THEN a
    ELSE IF a[Len(a)] = 0 THEN BigTrim[SubSeq(a, 1, Len(a) - 1)] ELSE a

BigOf[n \in Nat] == IF n = 0 THEN << >> ELSE <<n % Base>> \o BigOf[n \div Base]

Limb(a, i) == IF i >= 1 /\ i <= Len(a) THEN a[i] ELSE 0

\* limbs i and up of a + b + carry c
BigAddC[a \in Big, b \in Big, i \in Nat, c \in Nat] ==
    IF i > Len(a) /\ i > Len(b) THEN (IF c = 0 THEN << >> ELSE <<c>>)
    ELSE <<(Limb(a, i) + Limb(b, i) + c) % Base>>
         \o BigAddC[a, b, i + 1, (Limb(a, i) + Limb(b, i) + c) \div Base]

BigAdd[a \in Big, b \in Big] == BigAddC[a, b, 1, 0]

\* limbs i and up of a - b - borrow c, for a >= b
BigSubC[a \in Big, b \in Big, i \in Nat, c \in Nat] ==
    IF i > Len(a) THEN << >>
    ELSE IF Limb(a, i) - Limb(b, i) - c < 0
    THEN <<Limb(a, i) - Limb(b, i) - c + Base>> \o BigSubC[a, b, i + 1, 1]
    ELSE <<Limb(a, i) - Limb(b, i) - c>> \o BigSubC[a, b, i + 1, 0]

BigSub[a \in Big, b \in Big] == BigTrim[BigSubC[a, b, 1, 0]]

BigCmpAt[a \in Big, b \in Big, i \in Nat] ==
    IF i = 0 THEN 0
    ELSE IF a[i] < b[i] THEN -1
    ELSE IF a[i] > b[i] THEN 1
    ELSE BigCmpAt[a, b, i - 1]

\* -1, 0 or 1 as a < b, a = b or a > b
BigCmp[a \in Big, b \in Big] ==
    IF Len(a) < Len(b) THEN -1
    ELSE IF Len(a) > Len(b) THEN 1
    ELSE BigCmpAt[a, b, Len(a)]

\* limbs i and up of a * d + carry c, for a limb d
BigMulLimbC[a \in Big, d \in Nat, i \in Nat, c \in Nat] ==
    IF i > Len(a) THEN (IF c = 0 THEN << >> ELSE <<c>>)
    ELSE <<(a[i] * d + c) % Base>> \o BigMulLimbC[a, d, i + 1, (a[i] * d + c) \div Base]

\* a * (limbs j and up of b)
BigMulFrom[a \in Big, b \in Big, j \in Nat] ==
    IF j > Len(b) THEN << >>
    ELSE BigAdd[BigMulLimbC[a, b[j], 1, 0], <<0>> \o BigMulFrom[a, b, j + 1]]

BigMul[a \in Big, b \in Big] == BigTrim[BigMulFrom[a, b, 1]]

\* <<quotient, remainder>> of a by the small number d: the limbs 1..i of a
\* after the remainder r of the limbs above them
BigDivDigit[rest \in Big \X Nat, digit \in Nat] == <<rest[1] \o <<digit>>, rest[2]>>

BigDivLimbAt[a \in Big, d \in Nat, i \in Nat, r \in Nat] ==
    IF i = 0 THEN << << >>, r >>
    ELSE BigDivDigit[BigDivLimbAt[a, d, i - 1, (r * Base + a[i]) % d],
                     (r * Base + a[i]) \div d]

BigDivTrim[qr \in Big \X Nat] == <<BigTrim[qr[1]], qr[2]>>

BigDivLimb[a \in Big, d \in Nat] == BigDivTrim[BigDivLimbAt[a, d, Len(a), 0]]

BitsOf[n \in Nat] == IF n = 0 THEN 0 ELSE 1 + BitsOf[n \div 2]

BigBitLen[a \in Big] ==
    IF a = << >> THEN 0 ELSE LimbBits * (Len(a) - 1) + BitsOf[a[Len(a)]]

RECURSIVE Pow(_, _)
Pow(a, n) == IF n = 0 THEN 1 ELSE a * Pow(a, n - 1)

\* a * 2^s
BigShl[a \in Big, s \in Nat] ==
    IF a = << >> THEN a
    ELSE [i \in 1..(s \div LimbBits) |-> 0]
         \o BigMulLimbC[a, Pow(2, s % LimbBits), 1, 0]

\* a \div 2^(LimbBits * q) \div p, for p a power of two below Base
BigShrBy[a \in Big, q \in Nat, p \in Nat] ==
    BigTrim[[i \in 1..(Len(a) - q) |->
                (Limb(a, i + q) \div p) + (Limb(a, i + q + 1) % p) * (Base \div p)]]

\* a \div 2^s
BigShr[a \in Big, s \in Nat] == BigShrBy[a, s \div LimbBits, Pow(2, s % LimbBits)]

\* bit k of a, and whether a bit below bit k is set
BigBit[a \in Big, k \in Nat] ==
    (Limb(a, k \div LimbBits + 1) \div Pow(2, k % LimbBits)) % 2

BigLowBits[a \in Big, k \in Nat] ==
    \/ \E i \in 1..(k \div LimbBits) : Limb(a, i) # 0
    \/ Limb(a, k \div LimbBits + 1) % Pow(2, k % LimbBits) # 0

\* number of zero bits below the lowest set bit, for n > 0 and a # << >>
LowZeros[n \in Nat] == IF n % 2 = 1 THEN 0 ELSE 1 + LowZeros[n \div 2]

BigLowZeros[a \in Big, i \in Nat] ==
    IF a[i] = 0 THEN LimbBits + BigLowZeros[a, i + 1] ELSE LowZeros[a[i]]

(* -------------------------------- float64 ------------------------------- *)
\* <<s, m, e>> is the double s * m * 2^e: s is -1, 0 or 1 and m is an odd
\* natural below 2^53 (<< >> for zero).  The values of the model stay far
\* from the subnormals and from infinity.
Precision == 53
Double == {-1, 0, 1} \X Big \X Int
FZero == <<0, << >>, 0>>

\* m \div 2^k for k > 0, rounded to nearest, ties to even
RoundShr[m \in Big, k \in Nat] ==
    IF /\ BigBit[m, k - 1] = 1
       /\ (BigLowBits[m, k - 1] \/ BigBit[m, k] = 1)
    THEN BigAdd[BigShr[m, k], <<1>>]
    ELSE BigShr[m, k]

\* s * m * 2^e with the zero bits at the low end of m moved into e
FOdd[s \in Int, m \in Big, e \in Int, z \in Nat] == <<s, BigShr[m, z], e + z>>

\* s * m * 2^e for m of at most Precision bits
FExact[s \in Int, m \in Big, e \in Int] == FOdd[s, m, e, BigLowZeros[m, 1]]

\* the double nearest to s * m * 2^e, ties to even; m has n bits
FRoundBits[s \in Int, m \in Big, e \in Int, n \in Nat] ==
    IF n <= Precision THEN FExact[s, m, e]
    ELSE FExact[s, RoundShr[m, n - Precision], e + n - Precision]

FRound[s \in Int, m \in Big, e \in Int] ==
    IF m = << >> \/ s = 0 THEN FZero ELSE FRoundBits[s, m, e, BigBitLen[m]]

\* float(n)
FOfInt[n \in Int] == FRound[IF n < 0 THEN -1 ELSE 1, BigOf[IF n < 0 THEN -n ELSE n], 0]

FNeg[x \in Double] == <<-x[1], x[2], x[3]>>

\* x * y
FMul[x \in Double, y \in Double] == FRound[x[1] * y[1], BigMul[x[2], y[2]], x[3] + y[3]]

\* s * a * 2^e + t * b * 2^e for s and t in {-1, 1}
FAddAligned[s \in Int, a \in Big, t \in Int, b \in Big, e \in Int] ==
    IF s = t THEN FRound[s, BigAdd[a, b], e]
    ELSE IF BigCmp[a, b] = 0 THEN FZero
    ELSE IF BigCmp[a, b] > 0 THEN FRound[s, BigSub[a, b], e]
    ELSE FRound[t, BigSub[b, a], e]

\* x + y
FAdd[x \in Double, y \in Double] ==
    IF x[1] = 0 THEN y
    ELSE IF y[1] = 0 THEN x
    ELSE IF x[3] < y[3]
    THEN FAddAligned[x[1], x[2], y[1], BigShl[y[2], y[3] - x[3]], x[3]]
    ELSE FAddAligned[x[1], BigShl[x[2], x[3] - y[3]], y[1], y[2], y[3]]

\* x - y
FSub[x \in Double, y \in Double] == FAdd[x, FNeg[y]]

\* n / d for integers n and d with 0 < d < 2^17: the quotient is taken to
\* GuardBits binary places, and a sticky bit stands for the remainder
GuardBits == 70
FOfQuotient[s \in Int, qr \in Big \X Nat] ==
    FRound[s, BigAdd[BigShl[qr[1], 1], IF qr[2] = 0 THEN << >> ELSE <<1>>],
           -GuardBits - 1]

FDivInt[n \in Int, d \in Nat] ==
    FOfQuotient[IF n < 0 THEN -1 ELSE 1,
                BigDivLimb[BigShl[BigOf[IF n < 0 THEN -n ELSE n], GuardBits], d]]

\* np.sign(x)
FSign(x) == x[1]

\* x < y
FLess(x, y) == FSign(FSub[x, y]) < 0

(* ------------------------------- snapshots ------------------------------ *)
\* n = [tk['time'], ..., float(tk['buy']), float(tk['sell']), ...]
Snapshot(t, quote) == [time |-> t, buy |-> quote[1], sell |-> quote[2]]

\* mutant of Mid: the bid alone
MidBid(n) == n.buy

\* (n[4] + n[5]) / 2
Mid(n) == (n.buy + n.sell) \div 2

\* y = np.array([n[4] for n in ydata])
Prices(yd) == [i \in 1..Len(yd) |-> yd[i][2]]

(* --------------------------- _ewma_infinite_hist ------------------------ *)
\* ewma[i] = arr_in[i] * alpha + ewma[i-1] * (1 - alpha), appended to ewma
ewma_next[ewma \in Seq(Double), x \in Double, alpha \in Double] ==
    Append(ewma, FAdd[FMul[x, alpha],
                      FMul[ewma[Len(ewma)], FSub[FOfInt[1], alpha]]])

\* ewma[0] = arr_in[0], and the loop up to index i (counted from 1)
ewma_upto[arr_in \in Seq(Double), alpha \in Double, i \in Nat] ==
    IF i = 1 THEN <<arr_in[1]>>
    ELSE ewma_next[ewma_upto[arr_in, alpha, i - 1], arr_in[i], alpha]

\* alpha = 2 / float(window + 1)
ewma_infinite_hist[arr_in \in Seq(Double), window \in Nat] ==
    ewma_upto[arr_in, FDivInt[2, window + 1], Len(arr_in)]

\* np.array(y) of integer prices, as doubles
AsFloats(y) == [i \in 1..Len(y) |-> FOfInt[y[i]]]

\* u - v on arrays
Minus[u \in Seq(Double), v \in Seq(Double)] == [i \in 1..Len(u) |-> FSub[u[i], v[i]]]

\* emadiff = emaY - emabase, with emabase the EMA of window b and emaY the
\* EMA of window e
emadiff_of[y \in Seq(Int), b \in Nat, e \in Nat] ==
    Minus[ewma_infinite_hist[AsFloats(y), e], ewma_infinite_hist[AsFloats(y), b]]

\* the series an engine can hold after a history of hists and 1 to n
\* tickers of quotes, and after a history and the tickers of a scenario, of
\* which the engine may skip some
SeriesOf(hists, quotes, n) ==
    {Prices(h) \o s : h \in hists,
                      s \in UNION {[1..k -> {Mid(Snapshot(0, q)) : q \in quotes}]
                                      : k \in 1..n}}
RECURSIVE Subseqs(_)
Subseqs(s) ==
    IF s = << >> THEN {<< >>}
    ELSE Subseqs(Tail(s)) \cup {<<Head(s)>> \o r : r \in Subseqs(Tail(s))}
ScenarioOf(hists, scenario) ==
    {Prices(h) \o s : h \in hists, s \in Subseqs(scenario) \ {<< >>}}

\* the <<series, windows>> the engines of this module meet
Met ==
    (SeriesOf(Hists, Quotes, MaxSnap) \X WindowPairs)
    \cup (SeriesOf(Hists6, Quotes6, MaxSnap) \X Windows6)
    \cup (ScenarioOf(Hists8, Scenario8) \X Windows8)
    \cup (SeriesOf(Hists11, Quotes11, MaxSnap11) \X WindowPairs)
    \cup (SeriesOf(Hists12, Quotes12, MaxSnap12) \X WindowPairs)

\* emadiff_of on the arguments met, computed once
emadiffs == << >> @@ [a \in Met |-> emadiff_of[a[1], a[2][1], a[2][2]]]

emadiff(y, b, e) ==
    IF <<y, <<b, e>> >> \in DOMAIN emadiffs THEN emadiffs[<<y, <<b, e>> >>]
    ELSE emadiff_of[y, b, e]

\* np.sign(emadiff)
sign(d) == [i \in 1..Len(d) |-> FSign(d[i])]

\* np.diff(np.sign(emadiff))
emasigndiff(d) == [i \in 1..(Len(d) - 1) |-> sign(d)[i + 1] - sign(d)[i]]

\* mutant of buy_last: only a jump from negative to positive counts
buy_last_jump(sd) == sd[Len(sd)] > 1

\* buy[-1] >= .9 with buy = (emasigndiff > 0) * 1, zeros replaced by nan
buy_last(sd) == sd[Len(sd)] > 0

\* sell[-1] >= .9 with sell = (emasigndiff < 0) * 1, zeros replaced by nan
sell_last(sd) == sd[Len(sd)] < 0

(* ------------------------- populate_ticker_queue ------------------------ *)
\* one round of the loop: fetch_ticker, then q.put(n); the timestamp of the
\* snapshot is the exchange's tk['time'], lag ms behind the local clock
FetchFrom(pair, quotes, lags, limit) ==
    /\ feed[pair] = "run"
    /\ fetched < limit
    /\ \E quote \in quotes : \E lag \in lags :
          ticker_queues' = [ticker_queues EXCEPT
                               ![pair] = Append(@, Snapshot(now - lag, quote))]
    /\ fetched' = fetched + 1
    /\ UNCHANGED <<now, ticks, cfgVars, feed, engineVars, signal_queue, latency_queue,
                   keeperVars, execVars>>

populate_ticker_queue(pair) == FetchFrom(pair, Quotes, Lags, MaxSnap)

(* ------------------------- populate_signal_queue ------------------------ *)
\* mutant of AvgLatency: the latency of the newest snapshot alone
LastLatency(lats) == lats[Len(lats)]

\* int(sum(latencies)/len(latencies))
AvgLatency(lats) == TruncDiv(SumSeq(lats), Len(lats))

\* the signals lines 223-228 make for the snapshot that completed the series
\* y (at least 2 long)
SignalsFor(ts, pair, y, b, e) ==
    LET sd == emasigndiff(emadiff(y, b, e))
    IN  (IF buy_last(sd) THEN << <<ts, "BUY", pair, y[Len(y)]>> >> ELSE << >>)
        \o (IF sell_last(sd) THEN << <<ts, "SELL", pair, y[Len(y)]>> >> ELSE << >>)

\* The next statement of the engine of pair that touches shared state:
\*   200  n = q.get(), and the local work up to line 219
\*   220  self.latencies.append(...)
\*   221  if self.latency_logging: self.latency_queue.put(...)
\*   223  if buy[-1] >= .9: self.signals.append(...), or the same for sell
\*        at lines 226-227
\*   225  signal_queue.put([ts, 'BUY', ...])
\*   228  signal_queue.put([ts, 'SELL', ...])
populate_signal_queue(pair) ==
    /\ engine[pair] = "run"
    /\ LET at == engine_at[pair]
           ts == lastts[pair]
           y == Prices(ydata[pair])
           goto(line) == engine_at' = [engine_at EXCEPT ![pair] = line]
           dies(err) == engine' = [engine EXCEPT ![pair] = err]
       IN  IF at = 200
           THEN /\ ticker_queues[pair] # << >>
                /\ ticker_queues' = [ticker_queues EXCEPT ![pair] = Tail(@)]
                /\ LET n == Head(ticker_queues[pair])
                   IN  IF n.time = lastts[pair]
                       THEN UNCHANGED <<engine_at, lastts, latencies, ydata>>
                       ELSE /\ lastts' = [lastts EXCEPT ![pair] = n.time]
                            /\ latencies' = [latencies EXCEPT
                                                ![pair] = Append(@, now - n.time)]
                            /\ ydata' = [ydata EXCEPT
                                            ![pair] = Append(@, <<n.time, Mid(n)>>)]
                            /\ goto(220)
                /\ UNCHANGED <<engine, signals, signal_queue, all_latencies,
                               latency_queue>>
           ELSE IF at = 220
           THEN /\ all_latencies' = Append(all_latencies,
                                           <<ts, AvgLatency(latencies[pair])>>)
                /\ goto(221)
                /\ UNCHANGED <<ticker_queues, engine, lastts, latencies, ydata,
                               signals, signal_queue, latency_queue>>
           ELSE IF at = 221
           THEN /\ IF latency_logging /\ ~latency_queue_exists
                   THEN \* self.latency_queue was never created:
                        \* AttributeError, the thread dies
                        /\ dies("attribute_error")
                        /\ UNCHANGED <<engine_at, latency_queue>>
                   ELSE /\ latency_queue' =
                              IF latency_logging
                              THEN Append(latency_queue,
                                          <<ts, AvgLatency(latencies[pair])>>)
                              ELSE latency_queue
                        /\ goto(223)
                        /\ UNCHANGED engine
                /\ UNCHANGED <<ticker_queues, lastts, latencies, ydata, signals,
                               signal_queue, all_latencies>>
           ELSE IF at = 223
           THEN /\ IF Len(y) < 2
                   THEN \* buy[-1] on an empty array: IndexError, the thread dies
                        /\ dies("crashed")
                        /\ UNCHANGED <<engine_at, signals>>
                   ELSE LET made == SignalsFor(ts, pair, y, windows[1], windows[2])
                        IN  /\ signals' = signals \o made
                            /\ goto(IF made = << >> THEN 200
                                    ELSE IF made[1][2] = "BUY" THEN 225 ELSE 228)
                            /\ UNCHANGED engine
                /\ UNCHANGED <<ticker_queues, lastts, latencies, ydata,
                               signal_queue, all_latencies, latency_queue>>
           ELSE \* at 225 or at 228
                /\ signal_queue' = signal_queue
                                   \o SignalsFor(ts, pair, y, windows[1], windows[2])
                /\ goto(200)
                /\ UNCHANGED <<ticker_queues, engine, lastts, latencies, ydata,
                               signals, all_latencies, latency_queue>>
    /\ UNCHANGED <<now, ticks, cfgVars, fetched, feed, keeperVars, execVars>>

(* ------------------------ execute_trades_on_queue ----------------------- *)
\* mutant of Fresh: the threshold itself still counts as fresh
FreshAtThreshold(sgnl_age) == sgnl_age <= StaleMs

\* if sgnl_age < 5000
Fresh(sgnl_age) == sgnl_age < StaleMs

\* mutant of IsFlat: a BUY is taken whatever the position
IsFlatOrLong(stake) == stake >= 0

\* if stake == 0
IsFlat(stake) == stake = 0

\* if stake > 0
IsLong(stake) == stake > 0

\* mutant of SellAccepted: a sell at the entry price is accepted
SellAcceptedAtPar(pp) == pp >= 0

\* mutant of SellAccepted: every sell of a Long position is accepted
SellAcceptedAtLoss(pp) == TRUE

\* if pp > 0
SellAccepted(pp) == pp > 0

\* mutant of roi_of: the profit over the selling price
roi_of_price(pp, stake) == FDivInt[pp, stake + pp]

\* roi = pp / stake
roi_of(pp, stake) == FDivInt[pp, stake]

\* self.past_trades.append(...) of do_buy
do_buy(trades, timestamp, pair, price) ==
    Append(trades, <<timestamp, pair, "buy", price>>)

\* self.past_trades.append(...) of do_sell
do_sell(trades, timestamp, pair, price, pp, r) ==
    Append(trades, <<timestamp, pair, "sell", price, r>>)

\* the line of the first write of the handler of sgnl, once line 260 has read
\* stake; 253 (the next q.get()) when the handler writes nothing
FirstWrite(sgnl, stake) ==
    IF sgnl[2] = "BUY" /\ IsFlat(stake) THEN 263
    ELSE IF sgnl[2] = "SELL" /\ IsLong(stake) /\ SellAccepted(sgnl[4] - stake) THEN 270
    ELSE 253

\* The next statement of the Executor that touches shared state:
\*   253  sgnl = q.get(), the clock read and the tests up to the first write
\*   259  self.stakes[sgnl[2]] = 0, for a pair not seen before
\*   263  self.do_buy(...)             264  self.stakes[sgnl[2]] = sgnl[3]
\*   270  self.roi += roi              271  self.stakes[sgnl[2]] = 0
\*   272  self.do_sell(...)            273  self.profit += pp
execute_trades_on_queue ==
    /\ LET at == executor.at
           sgnl == executor.sgnl
           stake == executor.stake
           pp == sgnl[4] - stake
           goto(line) == executor' = [executor EXCEPT !.at = line]
       IN  IF at = 253
           THEN /\ signal_queue # << >>
                /\ signal_queue' = Tail(signal_queue)
                /\ LET got == Head(signal_queue)
                       sgnl_age == now - got[1]
                       seen == got[3] \in DOMAIN stakes
                   IN  executor' =
                          [at |-> IF ~Fresh(sgnl_age) THEN 253
                                  ELSE IF ~seen THEN 259
                                  ELSE FirstWrite(got, stakes[got[3]]),
                           sgnl |-> got,
                           sgnl_age |-> sgnl_age,
                           stake |-> IF Fresh(sgnl_age) /\ seen
                                     THEN stakes[got[3]] ELSE executor.stake]
                /\ UNCHANGED <<stakes, profit, roi, past_trades>>
           ELSE IF at = 259
           THEN /\ stakes' = (sgnl[3] :> 0) @@ stakes
                /\ executor' = [executor EXCEPT !.at = FirstWrite(sgnl, 0),
                                                !.stake = 0]
                /\ UNCHANGED <<signal_queue, profit, roi, past_trades>>
           ELSE IF at = 263
           THEN /\ past_trades' = do_buy(past_trades, sgnl[1], sgnl[3], sgnl[4])
                /\ goto(264)
                /\ UNCHANGED <<signal_queue, stakes, profit, roi>>
           ELSE IF at = 264
           THEN /\ stakes' = [stakes EXCEPT ![sgnl[3]] = sgnl[4]]
                /\ goto(253)
                /\ UNCHANGED <<signal_queue, profit, roi, past_trades>>
           ELSE IF at = 270
           THEN /\ roi' = FAdd[roi, roi_of(pp, stake)]
                /\ goto(271)
                /\ UNCHANGED <<signal_queue, stakes, profit, past_trades>>
           ELSE IF at = 271
           THEN /\ stakes' = [stakes EXCEPT ![sgnl[3]] = 0]
                /\ goto(272)
                /\ UNCHANGED <<signal_queue, profit, roi, past_trades>>
           ELSE IF at = 272
           THEN /\ past_trades' = do_sell(past_trades, sgnl[1], sgnl[3], sgnl[4],
                                          pp, roi_of(pp, stake))
                /\ goto(273)
                /\ UNCHANGED <<signal_queue, stakes, profit, roi>>
           ELSE \* at 273
                /\ profit' = profit + pp
                /\ goto(253)
                /\ UNCHANGED <<signal_queue, stakes, roi, past_trades>>
    /\ UNCHANGED <<now, ticks, cfgVars, feedVars, engineVars, latency_queue, keeperVars>>

(* --------------------------- latency_bookkeeper ------------------------- *)
\* one round of the loop; the round touches the queue or the file, not both
latency_bookkeeper ==
    /\ keeper = "run"
    /\ IF ~latency_queue_exists
       THEN \* self.latency_queue.empty(): AttributeError, the thread dies
            /\ keeper' = "attribute_error"
            /\ UNCHANGED <<latency_queue, X, Y, npz, flushes>>
       ELSE /\ latency_queue # << >>
            /\ UNCHANGED keeper
            /\ IF Len(X) < saving_batch_size
               THEN LET avg == latency_queue[Len(latency_queue)]   \* LifoQueue.get
                    IN  /\ latency_queue' = SubSeq(latency_queue, 1,
                                                   Len(latency_queue) - 1)
                        /\ X' = Append(X, avg[1])
                        /\ Y' = Append(Y, avg[2])
                        /\ UNCHANGED <<npz, flushes>>
               ELSE /\ npz' = IF npz # << >> THEN <<npz[1] \o X, npz[2] \o Y>>
                                             ELSE <<X, Y>>
                    /\ flushes' = flushes + 1
                    /\ X' = << >>
                    /\ Y' = << >>
                    /\ UNCHANGED latency_queue
    /\ UNCHANGED <<now, ticks, cfgVars, feedVars, engineVars, signal_queue, execVars>>

(* --------------------------------- clock -------------------------------- *)
TickUpTo(limit) ==
    /\ ticks < limit
    /\ ticks' = ticks + 1
    /\ now' = now + TickMs
    /\ UNCHANGED <<cfgVars, feedVars, engineVars, signal_queue, latency_queue,
                   keeperVars, execVars>>

Tick == TickUpTo(MaxTicks)

(* ----------------------------- specification ---------------------------- *)
\* The state once __call__ has started the threads of the pairs, at time t0.
\* cfg is self.latency_logging as __init__ and the config file leave it (the
\* queue is created only if it is true), calls are the arguments of the
\* set_latency_logging calls made before __call__, which starts the
\* bookkeeper only if the flag is true by then.
Constructed(pairs, wp, hists, t0, cfg, calls) ==
    /\ now = t0
    /\ ticks = 0
    /\ windows \in wp
    /\ latency_queue_exists = cfg
    /\ latency_logging = IF calls = << >> THEN cfg ELSE calls[Len(calls)]
    /\ keeper = IF (IF calls = << >> THEN cfg ELSE calls[Len(calls)])
                THEN "run" ELSE "off"
    /\ executor = [at |-> 253, sgnl |-> << >>, sgnl_age |-> 0, stake |-> 0]
    /\ fetched = 0
    /\ feed = [p \in pairs |-> "run"]
    /\ ticker_queues = [p \in pairs |-> << >>]
    /\ engine = [p \in pairs |-> "run"]
    /\ engine_at = [p \in pairs |-> 200]
    /\ lastts = [p \in pairs |-> 0]
    /\ latencies = [p \in pairs |-> << >>]
    /\ ydata \in [pairs -> hists]
    /\ signals = << >>
    /\ signal_queue = << >>
    /\ all_latencies = << >>
    /\ latency_queue = << >>
    /\ X = << >>
    /\ Y = << >>
    /\ npz = << >>
    /\ flushes = 0
    /\ stakes = << >>
    /\ profit = 0
    /\ roi = FZero
    /\ past_trades = << >>

\* a Trader built with latency logging on (the default)
InitOn(pairs, wp, hists, t0) == Constructed(pairs, wp, hists, t0, TRUE, << >>)

InitWith(wp, hists) == InitOn(Pairs, wp, hists, TickMs)

Init == InitWith(WindowPairs, Hists)

Next ==
    \/ \E pair \in Pairs : populate_ticker_queue(pair)
    \/ \E pair \in Pairs : populate_signal_queue(pair)
    \/ execute_trades_on_queue
    \/ latency_bookkeeper
    \/ Tick

Spec == Init /\ [][Next]_vars

(* ====================== the Executor on its own ========================= *)
\* The Executor fed every signal an engine could put: a side, a pair and a
\* price, stamped with the time of the put; the feeds and the engines stand
\* still.
MaxSignals == 2       \* signals put in a run
MaxTicks1 == 2        \* clock advances in a run
Pairs1 == {"X", "Y"}
Prices1 == {0, 4, 6}

\* signal_queue.put([ts, side, pair, y[-1]]) of the engine of pair
signal_queue_put(pair) ==
    /\ fetched < MaxSignals
    /\ \E side \in {"BUY", "SELL"} : \E price \in Prices1 :
          signal_queue' = Append(signal_queue, <<now, side, pair, price>>)
    /\ fetched' = fetched + 1
    /\ UNCHANGED <<now, ticks, cfgVars, ticker_queues, feed, engineVars,
                   latency_queue, keeperVars, execVars>>

Init1 == InitOn(Pairs1, WindowPairs, {<< >>}, TickMs)

Next1 ==
    \/ \E pair \in Pairs1 : signal_queue_put(pair)
    \/ execute_trades_on_queue
    \/ TickUpTo(MaxTicks1)

Spec1 == Init1 /\ [][Next1]_vars

\* stake of a pair: 0 (Flat) until the Executor has seen the pair
Stake(st, pair) == IF pair \in DOMAIN st THEN st[pair] ELSE 0

\* the Executor dequeues the head of the signal queue in this step
ExecTake == /\ executor.at = 253
            /\ signal_queue # << >>
            /\ signal_queue' = Tail(signal_queue)
HeadAge == now - Head(signal_queue)[1]
HeadSide == Head(signal_queue)[2]
HeadPair == Head(signal_queue)[3]
HeadPrice == Head(signal_queue)[4]
ExecFrame == /\ stakes' = stakes
             /\ profit' = profit
             /\ roi' = roi
             /\ past_trades' = past_trades

\* the Executor executes the statement at line (other than 253) in this step
ExecAt(line) == executor.at = line /\ executor' # executor

\* the Executor is between two signals, and the last one it took was of side
Handled(side) == /\ executor.at = 253
                 /\ executor.sgnl # << >>
                 /\ executor.sgnl[2] = side

LastTrade == past_trades[Len(past_trades)]

\* C1: a signal whose age at dequeue time is >= 5000 ms changes nothing:
\* stakes, profit, ROI and trade log are the same before and after, and the
\* Executor goes straight to the next signal.
C1_StaleChangesNothing ==
    [][(ExecTake /\ HeadAge >= StaleMs) => (ExecFrame /\ executor'.at = 253)]_vars

\* a BUY at a positive price for a Flat pair was taken when it was 5000 ms
\* old or more, and there is no trade
C1_Witness ==
    /\ Handled("BUY")
    /\ executor.sgnl_age >= StaleMs
    /\ executor.sgnl[4] > 0
    /\ Stake(stakes, executor.sgnl[3]) = 0
    /\ past_trades = << >>

\* C2: every stake is 0 (Flat) or > 0 (Long), and a fresh BUY while Long
\* leaves the stakes unchanged and appends nothing to the trade log.
C2_FlatOrLong ==
    /\ [](\A pair \in DOMAIN stakes : stakes[pair] >= 0)
    /\ [][(ExecTake /\ HeadAge < StaleMs /\ HeadSide = "BUY"
            /\ Stake(stakes, HeadPair) > 0)
          => (ExecFrame /\ executor'.at = 253)]_vars

\* a fresh BUY was taken while its pair was Long at another price, and the
\* pair is still Long at that price
C2_Witness ==
    /\ Handled("BUY")
    /\ executor.sgnl_age < StaleMs
    /\ Stake(stakes, executor.sgnl[3]) > 0
    /\ Stake(stakes, executor.sgnl[3]) # executor.sgnl[4]
    /\ LastTrade[3] = "buy"
    /\ LastTrade[4] = Stake(stakes, executor.sgnl[3])

\* C3 (as claimed): a fresh BUY while Flat is executed: one BUY record is
\* appended, and the pair is left Long at the signal's price, for every
\* price, 0 included.
C3_Orig ==
    [][/\ (ExecTake /\ HeadAge < StaleMs /\ HeadSide = "BUY"
            /\ Stake(stakes, HeadPair) = 0)
          => executor'.at \in {259, 263}
       /\ (ExecAt(259) /\ executor.sgnl[2] = "BUY") => executor'.at = 263
       /\ ExecAt(263)
          => /\ past_trades' = Append(past_trades,
                                      <<executor.sgnl[1], executor.sgnl[3], "buy",
                                        executor.sgnl[4]>>)
             /\ executor'.at = 264
       /\ ExecAt(264)
          => /\ Stake(stakes', executor.sgnl[3]) = executor.sgnl[4]
             /\ Stake(stakes', executor.sgnl[3]) > 0
             /\ executor'.at = 253]_vars

\* C4: a fresh SELL at p while Long at s < p is executed: (p - s)/s is added to
\* the ROI, the pair is left Flat, one SELL record is appended and p - s is
\* added to the profit.
C4_ProfitableSell ==
    [][LET p == executor.sgnl[4]
           s == executor.stake
           pair == executor.sgnl[3]
       IN  /\ (ExecTake /\ HeadAge < StaleMs /\ HeadSide = "SELL"
                /\ Stake(stakes, HeadPair) > 0 /\ HeadPrice > Stake(stakes, HeadPair))
              => /\ executor'.at = 270
                 /\ executor'.sgnl = Head(signal_queue)
                 /\ executor'.stake = Stake(stakes, HeadPair)
                 /\ ExecFrame
           /\ ExecAt(270)
              => /\ roi' = FAdd[roi, FDivInt[p - s, s]]
                 /\ executor'.at = 271
                 /\ UNCHANGED <<stakes, profit, past_trades>>
           /\ ExecAt(271)
              => /\ stakes' = [stakes EXCEPT ![pair] = 0]
                 /\ executor'.at = 272
                 /\ UNCHANGED <<profit, roi, past_trades>>
           /\ ExecAt(272)
              => /\ Len(past_trades') = Len(past_trades) + 1
                 /\ SubSeq(past_trades', 1, Len(past_trades)) = past_trades
                 /\ past_trades'[Len(past_trades')][1] = executor.sgnl[1]
                 /\ past_trades'[Len(past_trades')][2] = pair
                 /\ past_trades'[Len(past_trades')][3] = "sell"
                 /\ past_trades'[Len(past_trades')][4] = p
                 /\ executor'.at = 273
                 /\ UNCHANGED <<stakes, profit, roi>>
           /\ ExecAt(273)
              => /\ profit' = profit + (p - s)
                 /\ executor'.at = 253
                 /\ UNCHANGED <<stakes, roi, past_trades>>]_vars

\* a position opened at 4 has been closed at 6: profit 2, ROI 1/2
C4_Witness ==
    /\ Handled("SELL")
    /\ Len(past_trades) = 2
    /\ past_trades[1][3] = "buy" /\ past_trades[1][4] = 4
    /\ past_trades[2][3] = "sell" /\ past_trades[2][4] = 6
    /\ profit = 2
    /\ roi = <<1, <<1>>, -1>>
    /\ Stake(stakes, past_trades[2][2]) = 0

\* C5: a fresh SELL at a price <= the stake while Long, and any SELL while
\* Flat, leaves the pair's stake, the profit, the ROI and the trade log unchanged.
C5_RejectedSell ==
    [][/\ (ExecTake /\ HeadSide = "SELL"
            /\ \/ Stake(stakes, HeadPair) = 0
               \/ /\ HeadAge < StaleMs
                  /\ Stake(stakes, HeadPair) > 0
                  /\ HeadPrice <= Stake(stakes, HeadPair))
          => /\ executor'.at \in {253, 259}
             /\ ExecFrame
       /\ (ExecAt(259) /\ executor.sgnl[2] = "SELL")
          => /\ executor'.at = 253
             /\ Stake(stakes', executor.sgnl[3]) = Stake(stakes, executor.sgnl[3])
             /\ profit' = profit
             /\ roi' = roi
             /\ past_trades' = past_trades]_vars

\* a fresh SELL was taken while its pair was Long at a stake above the
\* signal's price, and the pair is still Long at that stake
C5_Witness ==
    /\ Handled("SELL")
    /\ executor.sgnl_age < StaleMs
    /\ Stake(stakes, executor.sgnl[3]) > executor.sgnl[4]
    /\ LastTrade[3] = "buy"
    /\ LastTrade[2] = executor.sgnl[3]

(* ------------------ what a dashboard read can see (C16) ----------------- *)
\* The api thread reads self.roi, self.profit, self.past_trades and
\* self.stakes while the Executor runs; no lock is taken, so every state
\* between two statements of execute_trades_on_queue is visible to a reader.

\* the sells recorded in the trade log
SellRecords == SelectSeq(past_trades, LAMBDA t : t[3] = "sell")

\* the sum, in log order, of the ROI of the sells of a log
RECURSIVE RoiOfLog(_)
RoiOfLog(sells) ==
    IF sells = << >> THEN FZero
    ELSE FAdd[RoiOfLog(SubSeq(sells, 1, Len(sells) - 1)), sells[Len(sells)][5]]

\* the price of the last buy of pair among the first n records
RECURSIVE BoughtAt(_, _)
BoughtAt(pair, n) ==
    IF n = 0 THEN 0
    ELSE IF past_trades[n][2] = pair /\ past_trades[n][3] = "buy" THEN past_trades[n][4]
    ELSE BoughtAt(pair, n - 1)

\* the sum of the profits of the sells among the first n records: a sell
\* closes the position its pair's last buy opened
RECURSIVE ProfitOfLog(_)
ProfitOfLog(n) ==
    IF n = 0 THEN 0
    ELSE ProfitOfLog(n - 1)
         + (IF past_trades[n][3] = "sell"
            THEN past_trades[n][4] - BoughtAt(past_trades[n][2], n - 1) ELSE 0)

\* the records of one pair
TradesOf(pair) == SelectSeq(past_trades, LAMBDA t : t[2] = pair)

\* C16: in every state a dashboard read can see, totalRoi, totalProfit, the
\* trade log and the stakes reflect the same set of completed sells: the ROI
\* and the profit are the sums over the sells in the log, and a pair whose
\* last record is a sell is Flat.
C16_Orig ==
    /\ roi = RoiOfLog(SellRecords)
    /\ profit = ProfitOfLog(Len(past_trades))
    /\ \A pair \in Pairs1 :
          LET trades == TradesOf(pair)
          IN  (trades # << >> /\ trades[Len(trades)][3] = "sell")
              => Stake(stakes, pair) = 0

(* ------------------------- no realized loss (C17) ----------------------- *)
\* C17: the Executor never realizes a loss: profit and roi are never negative
\* and never decrease, and a step that changes one of them increases it by a
\* strictly positive amount.
C17_NoLoss ==
    /\ [](profit >= 0 /\ FSign(roi) >= 0)
    /\ [][/\ profit' >= profit
          /\ ~FLess(roi', roi)
          /\ profit' # profit => profit' > profit
          /\ roi' # roi => FLess(roi, roi')]_vars

\* a sell has been realized: profit and ROI are positive
C17_Witness ==
    /\ Handled("SELL")
    /\ profit > 0
    /\ FSign(roi) > 0
    /\ SellRecords # << >>

(* ----------------------- shape of the trade log (C18) ------------------- *)
\* the sides of the records of one pair, in log order
SidesOf(pair) == [i \in 1..Len(TradesOf(pair)) |-> TradesOf(pair)[i][3]]

\* buy, sell, buy, ... starting with a buy
Alternates(sides) ==
    \A i \in 1..Len(sides) : sides[i] = IF i % 2 = 1 THEN "buy" ELSE "sell"

\* C18: whenever the Executor is between two signals, for each pair the
\* records of the trade log alternate buy, sell, buy, ... starting with a
\* buy, and the pair is Long exactly when its last record is a buy.
C18_Orig ==
    executor.at = 253 =>
        \A pair \in Pairs1 :
            LET sides == SidesOf(pair)
            IN  /\ Alternates(sides)
                /\ IsLong(Stake(stakes, pair))
                      <=> (sides # << >> /\ sides[Len(sides)] = "buy")

(* ================== properties of the IndicatorEngine =================== *)
\* the engine of pair dequeues the head of its ticker queue in this step
EngGet(pair) == /\ engine_at[pair] = 200
                /\ ticker_queues[pair] # << >>
                /\ ticker_queues'[pair] = Tail(ticker_queues[pair])

\* an engine step that processes its snapshot (the timestamp is not lastts)
Processes(pair) == EngGet(pair) /\ Head(ticker_queues[pair]).time # lastts[pair]

\* the engine of pair executes the statement at line (other than 200) in
\* this step
EngAt(pair, line) ==
    /\ engine[pair] = "run"
    /\ engine_at[pair] = line
    /\ (engine_at'[pair] # line \/ engine'[pair] # "run")

\* the snapshot the engine of pair is processing, as its entry of ydata
Current(pair) == ydata[pair][Len(ydata[pair])]

\* np.sign(emadiff) over the series of a pair
SignsOf(yd) == sign(emadiff(Prices(yd), windows[1], windows[2]))

\* the put of the signal the test at line 223 or 226 has decided on
PutsAsDecided(pair) ==
    /\ EngAt(pair, 225)
       => /\ signal_queue' = Append(signal_queue,
                                    <<Current(pair)[1], "BUY", pair, Current(pair)[2]>>)
          /\ engine_at'[pair] = 200
    /\ EngAt(pair, 228)
       => /\ signal_queue' = Append(signal_queue,
                                    <<Current(pair)[1], "SELL", pair, Current(pair)[2]>>)
          /\ engine_at'[pair] = 200

\* the program with populate_signal_queue called on the windows of Windows6,
\* built from a config with latency_logging off: there is no latency queue,
\* and __call__ starts no LatencyMonitor thread (line 421)
Init6 == Constructed(Pairs, Windows6, Hists6, TickMs, FALSE, << >>)

Fetch6(pair) == FetchFrom(pair, Quotes6, {0}, MaxSnap)

Next6 ==
    \/ \E pair \in Pairs : Fetch6(pair)
    \/ \E pair \in Pairs : populate_signal_queue(pair)
    \/ execute_trades_on_queue
    \/ Tick

Spec6 == Init6 /\ [][Next6]_vars

\* C6 (as claimed): for a processed snapshot with an earlier sample, a BUY is
\* put exactly when the previous diff is <= 0 and the current one > 0, a SELL
\* exactly when the previous diff is >= 0 and the current one < 0.
C6_Orig ==
    [][\A pair \in Pairs :
          /\ (EngAt(pair, 223) /\ Len(ydata[pair]) >= 2)
             => LET d == SignsOf(ydata[pair])
                    prev == d[Len(d) - 1]
                    cur == d[Len(d)]
                IN  /\ (engine_at'[pair] = 225) <=> (prev <= 0 /\ cur > 0)
                    /\ (engine_at'[pair] = 228) <=> (prev >= 0 /\ cur < 0)
          /\ PutsAsDecided(pair)]_vars

\* C6 (amended): a BUY is put exactly when the diff rises from negative to
\* zero or more, or from zero to positive; a SELL exactly when it falls from
\* positive to zero or less, or from zero to negative; no signal otherwise.
C6_SignCrossing ==
    [][\A pair \in Pairs :
          /\ (EngAt(pair, 223) /\ Len(ydata[pair]) >= 2)
             => LET d == SignsOf(ydata[pair])
                    prev == d[Len(d) - 1]
                    cur == d[Len(d)]
                IN  /\ (engine_at'[pair] = 225)
                         <=> ((prev < 0 /\ cur >= 0) \/ (prev = 0 /\ cur > 0))
                    /\ (engine_at'[pair] = 228)
                         <=> ((prev > 0 /\ cur <= 0) \/ (prev = 0 /\ cur < 0))
                    /\ engine_at'[pair] \in {200, 225, 228}
          /\ PutsAsDecided(pair)]_vars

\* the series 8, 12, 10 with windows 1 and 3 has been processed: the diff
\* fell from 0 to a negative value, where a SELL was recorded and put, and then
\* rose from negative to exactly 0, where a BUY was recorded and put
C6_Witness ==
    \E pair \in Pairs :
        /\ Len(ydata[pair]) = 3
        /\ engine_at[pair] = 200
        /\ SignsOf(ydata[pair]) = <<0, -1, 0>>
        /\ signals = << <<ydata[pair][2][1], "SELL", pair, ydata[pair][2][2]>>,
                        <<Current(pair)[1], "BUY", pair, Current(pair)[2]>> >>

StrictlyIncreasing(y) == \A i \in 1..(Len(y) - 1) : y[i] < y[i + 1]
SignalsOf(side, pair) ==
    {i \in 1..Len(signals) : signals[i][2] = side /\ signals[i][3] = pair}

\* C7 (as claimed): once a strictly increasing series has been processed with
\* fast window < slow window, exactly one BUY has been emitted, at the index
\* where diff first becomes positive, and no SELL.
C7_Orig ==
    \A pair \in Pairs :
        (/\ windows[1] < windows[2]
         /\ engine[pair] = "run"
         /\ engine_at[pair] = 200
         /\ ticker_queues[pair] = << >>
         /\ Len(ydata[pair]) >= 2
         /\ StrictlyIncreasing(Prices(ydata[pair])))
        => /\ SignalsOf("SELL", pair) = {}
           /\ Cardinality(SignalsOf("BUY", pair)) = 1
           /\ \E k \in 2..Len(ydata[pair]) :
                 /\ SignsOf(ydata[pair])[k] > 0
                 /\ \A j \in 1..(k - 1) : SignsOf(ydata[pair])[j] <= 0
                 /\ \A i \in SignalsOf("BUY", pair) : signals[i][1] = ydata[pair][k][1]

\* C9: a processed snapshot puts at most one signal, and a signal put carries
\* the snapshot's timestamp, the engine's pair and the snapshot's mid-price:
\* the snapshot enters the series with its timestamp and its mid, and a put
\* is the one put of an engine, made of the newest entry of its series.
C9_OneSignal ==
    [][/\ \A pair \in Pairs :
             /\ Processes(pair)
                => LET n == Head(ticker_queues[pair])
                   IN  /\ Len(ydata'[pair]) = Len(ydata[pair]) + 1
                       /\ ydata'[pair][Len(ydata'[pair])][1] = n.time
                       /\ 2 * ydata'[pair][Len(ydata'[pair])][2] = n.buy + n.sell
             /\ EngGet(pair) => signal_queue' = signal_queue
             /\ \A line \in {220, 221, 223} :
                   EngAt(pair, line) => signal_queue' = signal_queue
       /\ Len(signal_queue') > Len(signal_queue)
          => \E pair \in Pairs : \E side \in {"BUY", "SELL"} :
                /\ engine_at[pair] \in {225, 228}
                /\ engine_at'[pair] = 200
                /\ signal_queue' = Append(signal_queue,
                                          <<Current(pair)[1], side, pair,
                                            Current(pair)[2]>>)]_vars

\* a signal made from the quote <<3, 5>> (mid 4) is on the queue
C9_Witness ==
    /\ signal_queue # << >>
    /\ Head(signal_queue)[4] = 4
    /\ \E pair \in Pairs : engine_at[pair] = 200 /\ Current(pair)[2] = 4

(* ============== the scenario [10, 10, 11, 13, 16], windows 2 and 4 ====== *)
Init8 == InitWith(Windows8, Hists8)

Fetch8(pair) ==
    /\ fetched < Len(Scenario8)
    /\ FetchFrom(pair, {<<Scenario8[fetched + 1], Scenario8[fetched + 1]>>}, {0},
                 Len(Scenario8))

Next8 ==
    \/ \E pair \in Pairs : Fetch8(pair)
    \/ \E pair \in Pairs : populate_signal_queue(pair)
    \/ execute_trades_on_queue
    \/ latency_bookkeeper
    \/ TickUpTo(MaxTicks8)

Spec8 == Init8 /\ [][Next8]_vars

\* the engine of X started with no history
EmptyStart8 == ydata["X"] = << >> \/ ydata["X"][1][1] # 0

\* C8 (as claimed): fed [10, 10, 11, 13, 16] with windows 2 and 4 and no
\* history, the engine keeps running and, once the five snapshots are
\* processed, has emitted the single signal BUY at index 3, where the fast EMA
\* first exceeds the slow one, at price 11; consumed fresh, it leaves X Long at 11.
C8_Orig ==
    EmptyStart8 =>
        /\ engine["X"] = "run"
        /\ (Len(ydata["X"]) = Len(Scenario8) /\ engine_at["X"] = 200)
           => /\ signals = << <<ydata["X"][3][1], "BUY", "X", 11>> >>
              /\ (signal_queue = << >> /\ executor.at = 253
                  /\ executor.sgnl # << >> /\ executor.sgnl_age < StaleMs)
                 => Stake(stakes, "X") = 11

(* ======================= the LatencyMonitor ============================= *)
\* every consumer thread keeps being scheduled
FairSpec ==
    /\ Spec
    /\ WF_vars(latency_bookkeeper)
    /\ WF_vars(execute_trades_on_queue)
    /\ \A pair \in Pairs : WF_vars(populate_signal_queue(pair))

\* C10 (as claimed): once exactly saving_batch_size samples have been put and
\* no further one arrives, the bookkeeper eventually performs exactly one
\* flush, and the persisted batch holds all saving_batch_size samples.
C10_Orig ==
    (<>[](Len(all_latencies) = saving_batch_size))
    => /\ <>(flushes = 1 /\ npz # << >> /\ Len(npz[1]) = saving_batch_size)
       /\ [](flushes <= 1)

(* ------------------------- latency batches (C11) ------------------------ *)
\* one pair with a one-candle history and a feed that publishes up to
\* MaxSnap11 tickers at distinct times
Init11 == InitOn(Pairs, WindowPairs, Hists11, TickMs)

Fetch11(pair) == FetchFrom(pair, Quotes11, {0}, MaxSnap11)

Next11 ==
    \/ \E pair \in Pairs : Fetch11(pair)
    \/ \E pair \in Pairs : populate_signal_queue(pair)
    \/ execute_trades_on_queue
    \/ latency_bookkeeper
    \/ TickUpTo(MaxTicks11)

Spec11 == Init11 /\ [][Next11]_vars

\* the k-th fields of the first n entries of a sequence of tuples
Column(seq, k, n) == [i \in 1..n |-> seq[i][k]]

\* C11: once the second flush has happened, the persisted arrays hold the
\* first 2 * saving_batch_size samples the engines put, in the order they
\* were put, whatever the interleaving of the engines and the LatencyMonitor.
C11_Orig ==
    flushes >= 2 =>
        LET n == 2 * saving_batch_size
        IN  /\ Len(all_latencies) >= n
            /\ SubSeq(npz[1], 1, n) = Column(all_latencies, 1, n)
            /\ SubSeq(npz[2], 1, n) = Column(all_latencies, 2, n)

(* ------------------------- feed failures (C12, C13) --------------------- *)
\* an exception in populate_ticker_queue is not caught: the thread of that
\* pair ends and nothing else is touched
FeedDies(pair, err) ==
    /\ feed[pair] = "run"
    /\ feed' = [feed EXCEPT ![pair] = err]
    /\ UNCHANGED <<now, ticks, cfgVars, fetched, ticker_queues, engineVars,
                   signal_queue, latency_queue, keeperVars, execVars>>

\* the same exception taken to end the whole process
ticker_fetch_fails_fatal(pair) ==
    /\ feed[pair] = "run"
    /\ feed' = [p \in DOMAIN feed |-> "fetch_error"]
    /\ engine' = [p \in DOMAIN engine |-> "crashed"]
    /\ keeper' = "off"
    /\ UNCHANGED <<now, ticks, cfgVars, fetched, ticker_queues, engine_at, lastts,
                   latencies, ydata, signals, all_latencies, signal_queue,
                   latency_queue, X, Y, npz, flushes, execVars>>

\* self.client.fetch_ticker(pair) raises
ticker_fetch_fails(pair) == FeedDies(pair, "fetch_error")

\* float(tk[x]) raises ValueError on a field that is not a number
ticker_malformed(pair) == FeedDies(pair, "format_error")

Init12 == InitOn(Pairs12, WindowPairs, Hists12, TickMs)

Fetch12(pair) == FetchFrom(pair, Quotes12, {0}, MaxSnap12)

Next12 ==
    \/ \E pair \in Pairs12 : Fetch12(pair)
    \/ \E pair \in Pairs12 : ticker_fetch_fails(pair)
    \/ \E pair \in Pairs12 : ticker_malformed(pair)
    \/ \E pair \in Pairs12 : populate_signal_queue(pair)
    \/ execute_trades_on_queue
    \/ latency_bookkeeper
    \/ TickUpTo(MaxTicks12)

Spec12 == Init12 /\ [][Next12]_vars

\* the threads other than the feed of pair p are alive and can take their step
OthersRun(p) ==
    /\ \A q \in Pairs12 \ {p} :
          /\ (feed[q] = "run" /\ fetched < MaxSnap12) => ENABLED Fetch12(q)
          /\ (ticker_queues[q] # << >> \/ engine_at[q] # 200)
             => ENABLED populate_signal_queue(q)
    /\ (signal_queue # << >> \/ executor.at # 253) => ENABLED execute_trades_on_queue
    /\ latency_queue # << >> => ENABLED latency_bookkeeper

\* the step in which the ticker fetch of pair p fails
FetchFailure(p) == feed[p] = "run" /\ feed'[p] = "fetch_error"

\* C12: when the ticker fetch of one feed fails, only that feed stops: the
\* failing step changes nothing but that feed's state, and afterwards the
\* feeds and engines of the other pairs, the Executor and the LatencyMonitor
\* can still take their steps.
C12_OnlyThatFeedStops ==
    /\ [](\A p \in Pairs12 : feed[p] = "fetch_error" => OthersRun(p))
    /\ [][\A p \in Pairs12 : FetchFailure(p) =>
              /\ \A q \in Pairs12 \ {p} : feed'[q] = feed[q]
              /\ UNCHANGED <<fetched, ticker_queues, engineVars, signal_queue,
                             latency_queue, keeperVars, execVars>>]_vars

\* X's feed has failed without ever publishing; Y's feed has published and
\* is running, and its snapshot has become a position
C12_Witness ==
    /\ feed["X"] = "fetch_error"
    /\ Len(ydata["X"]) = 1 /\ ticker_queues["X"] = << >>
    /\ feed["Y"] = "run"
    /\ Len(ydata["Y"]) = 2
    /\ Stake(stakes, "Y") > 0

\* C13: a ticker with a field that is not a number drops that snapshot only:
\* the feed survives it and goes on publishing the later snapshots.
C13_Orig == \A pair \in Pairs12 : feed[pair] # "format_error"

(* --------------------------- latency samples (C14) ---------------------- *)
\* the newest sample on the latency queue
NewestSample(q) == q[Len(q)]

\* C14 as stated: the sample put for a processed snapshot is
\* (timestamp, now - timestamp), the latency of that snapshot alone.
C14_Orig ==
    [][\A pair \in Pairs :
          (EngAt(pair, 221) /\ latency_logging)
          => latency_queue' = Append(latency_queue,
                                     <<Current(pair)[1],
                                       latencies[pair][Len(latencies[pair])]>>)]_vars

\* C14 amended: the engine records now - timestamp in its own list, and the
\* sample put is (timestamp, the mean, truncated towards zero to an integer,
\* of the latencies of every snapshot this engine has processed so far).
C14_RunningMean ==
    [][\A pair \in Pairs :
          /\ Processes(pair)
             => latencies'[pair] = Append(latencies[pair],
                                          now - Head(ticker_queues[pair]).time)
          /\ (EngAt(pair, 221) /\ latency_logging)
             => LET lats == latencies[pair]
                    k == Len(lats)
                    s == NewestSample(latency_queue')
                IN  /\ Len(latency_queue') = Len(latency_queue) + 1
                    /\ SubSeq(latency_queue', 1, Len(latency_queue)) = latency_queue
                    /\ s[1] = Current(pair)[1]
                    /\ SumSeq(lats) >= 0
                       => (k * s[2] <= SumSeq(lats) /\ SumSeq(lats) < k * (s[2] + 1))
                    /\ SumSeq(lats) < 0
                       => (k * (s[2] - 1) < SumSeq(lats) /\ SumSeq(lats) <= k * s[2])]_vars

\* an engine has processed two snapshots whose latencies have a negative sum
\* that 2 does not divide, and the sample it put last is their mean rounded
\* towards zero: neither the latency of the last snapshot nor the floor of
\* the mean
C14_Witness ==
    \E pair \in Pairs :
        /\ Len(latencies[pair]) = 2
        /\ SumSeq(latencies[pair]) < 0
        /\ SumSeq(latencies[pair]) % 2 = 1
        /\ engine_at[pair] = 223
        /\ latency_queue # << >>
        /\ NewestSample(latency_queue)[1] = lastts[pair]
        /\ NewestSample(latency_queue)[2] # LastLatency(latencies[pair])
        /\ 2 * NewestSample(latency_queue)[2] = SumSeq(latencies[pair]) + 1

(* ------------------------ duplicate suppression (C15) ------------------- *)
\* the same program with a clock that starts at 0, so that the first ticker
\* can carry the timestamp 0
Init15 == InitOn(Pairs, WindowPairs, Hists, 0)

Spec15 == Init15 /\ [][Next]_vars

\* C15: a snapshot with the timestamp of the last processed snapshot is
\* skipped entirely (nothing appended to the series, no latency recorded, the
\* engine goes to the next snapshot); every other snapshot, the very first
\* one included whatever its timestamp, is processed.
C15_Orig ==
    [][\A pair \in Pairs :
          EngGet(pair)
          => LET n == Head(ticker_queues[pair])
                 first == latencies[pair] = << >>   \* nothing processed yet
             IN  IF ~first /\ n.time = lastts[pair]
                 THEN UNCHANGED <<ydata, latencies, engine_at, all_latencies,
                                  latency_queue, signal_queue>>
                 ELSE /\ Len(ydata'[pair]) = Len(ydata[pair]) + 1
                      /\ Len(latencies'[pair]) = Len(latencies[pair]) + 1
                      /\ lastts'[pair] = n.time
                      /\ engine_at'[pair] = 220]_vars

(* ---------------------- the latency_logging flag (C19) ------------------ *)
\* def set_latency_logging(self, latency_logging): only the flag is written
\* (a call with the current value changes nothing)
set_latency_logging(v) ==
    /\ latency_logging # v
    /\ latency_logging' = v
    /\ UNCHANGED <<now, ticks, windows, latency_queue_exists, feedVars, engineVars,
                   signal_queue, latency_queue, keeperVars, execVars>>

\* the set_latency_logging calls made between construction and __call__
Calls19 == {<< >>, <<TRUE>>, <<FALSE>>}

Init19 ==
    \E cfg \in BOOLEAN : \E calls \in Calls19 :
        Constructed(Pairs, WindowPairs, Hists, TickMs, cfg, calls)

Next19 ==
    \/ \E pair \in Pairs : populate_ticker_queue(pair)
    \/ \E pair \in Pairs : populate_signal_queue(pair)
    \/ execute_trades_on_queue
    \/ latency_bookkeeper
    \/ Tick
    \/ \E v \in BOOLEAN : set_latency_logging(v)

Spec19 == Init19 /\ [][Next19]_vars

\* C19: whatever the construction and the set_latency_logging calls, when an
\* engine reaches the put of its sample while latency_logging is true, the
\* latency queue exists, the sample is put on it and the engine goes on to
\* the crossover test.
C19_Orig ==
    [][\A pair \in Pairs :
          (EngAt(pair, 221) /\ latency_logging)
          => /\ latency_queue_exists
             /\ latency_queue' = Append(latency_queue,
                                        <<Current(pair)[1], AvgLatency(latencies[pair])>>)
             /\ engine'[pair] = "run"
             /\ engine_at'[pair] = 223]_vars

(* --------------------- start on an empty history (C20) ------------------ *)
\* C20: the first snapshot processed by an engine whose history is empty
\* initializes both EMAs to the snapshot's mid-price, emits no signal and
\* leaves the engine running, ready for the next snapshot.
C20_Orig ==
    [][\A pair \in Pairs :
          (EngAt(pair, 223) /\ Len(ydata[pair]) = 1)
          => /\ ewma_infinite_hist[AsFloats(Prices(ydata[pair])), windows[1]]
                   = <<FOfInt[Current(pair)[2]]>>
             /\ ewma_infinite_hist[AsFloats(Prices(ydata[pair])), windows[2]]
                   = <<FOfInt[Current(pair)[2]]>>
             /\ signals' = signals
             /\ signal_queue' = signal_queue
             /\ engine'[pair] = "run"
             /\ engine_at'[pair] = 200]_vars
====
